---- MODULE Spec2Model ----
(***************************************************************************)
(* Model of the VWAP / EMA short-only intraday backtester:                 *)
(*   trading_bot/core/strategy.py      position sizing, entry/exit signals *)
(*   trading_bot/utils/indicators.py   VWAP, EMA, historical data          *)
(*   trading_bot/backtesting/engine.py Backtester (trade state machine)    *)
(*                                                                         *)
(* Numbers.  Prices, volumes and timestamps are integers; a timestamp is   *)
(* the number of the 5-minute slot.  A value that pandas holds as a float  *)
(* that may be NaN (VWAP, the columns of the resampled table, the aligned  *)
(* series) is a fraction [n, d] with d >= 0, and d = 0 is NaN.  Every      *)
(* comparison with NaN is false, as in Python.                             *)
(***************************************************************************)
EXTENDS Integers, Sequences, FiniteSets, TLC

VARIABLES
    capital,        \* Backtester.capital
    risk_percent,   \* Backtester.risk_percent, a fraction [n, d]
    sl_points,      \* Backtester.sl_points
    lot_size,       \* Backtester.lot_size
    feed,           \* what get_historical_data returns for the period
    has_df_5min,    \* whether the attribute Backtester.df_5min exists
    df_5min,        \* Backtester.df_5min (rows with the VWAP column)
    df_15min,       \* Backtester.df_15min (resampled rows with the EMA column)
    aligned_ema,    \* Backtester.aligned_ema (series on the 5-minute index)
    trades,         \* Backtester.trades, the closed-trade log
    in_trade,       \* Backtester.in_trade
    current_trade,  \* Backtester.current_trade, a dict
    i,              \* the loop variable of Backtester.run
    pc,             \* position of the call under way
    stdout,         \* the messages printed so far
    args,           \* arguments of the pure function under test
    ret             \* its return value

vars == <<capital, risk_percent, sl_points, lot_size, feed, has_df_5min,
          df_5min, df_15min, aligned_ema, trades, in_trade, current_trade,
          i, pc, stdout, args, ret>>

-----------------------------------------------------------------------------
(* Bounds of the model.                                                    *)

\* longest 5-minute series the data provider returns
MaxLen == 5
\* most rows of the table handed to check_entry_signal on its own
MaxRows == 2
\* capital handed to calculate_position_size on its own: multiples of 50
\* from -50 * MaxCapital to 50 * MaxCapital
MaxCapital == 6
\* stop-loss distance and lot size handed to it: -MaxRisk..MaxRisk
MaxRisk == 2

-----------------------------------------------------------------------------
(* Floats.                                                                 *)

NaN == [n |-> 0, d |-> 0]

R(x) == [n |-> x, d |-> 1]

isna(x) == x.d = 0

\* a < b on floats: false when either side is NaN
Lt(a, b) == ~isna(a) /\ ~isna(b) /\ a.n * b.d < b.n * a.d

Gt(a, b) == Lt(b, a)

\* Python's builtin max(a, b): b when b > a, else a
PyMax(a, b) == IF Gt(b, a) THEN b ELSE a

\* Python's builtin min(a, b): b when b < a, else a
PyMin(a, b) == IF Lt(b, a) THEN b ELSE a

Max(a, b) == IF a >= b THEN a ELSE b

Min(a, b) == IF a <= b THEN a ELSE b

\* Python's int() of the quotient a / b, b > 0: truncation toward zero
IntTrunc(a, b) == IF a >= 0 THEN a \div b ELSE -((-a) \div b)

RECURSIVE SumTo(_, _)
SumTo(f, k) == IF k = 0 THEN 0 ELSE f[k] + SumTo(f, k - 1)

\* dict assignment d[k] = v
Put(d, k, v) == [x \in DOMAIN d \cup {k} |-> IF x = k THEN v ELSE d[x]]

\* float addition
FAdd(a, b) ==
    IF isna(a) \/ isna(b) THEN NaN
    ELSE [n |-> a.n * b.d + b.n * a.d, d |-> a.d * b.d]

\* float times the ratio p / q, q > 0
FScale(a, p, q) == IF isna(a) THEN NaN ELSE [n |-> a.n * p, d |-> a.d * q]

-----------------------------------------------------------------------------
(* trading_bot/core/strategy.py                                            *)

\* position size that multiplies by the stop distance instead of dividing
\* by it
calculate_position_size_times_sl(cap, rp, sl, lot) ==
    IF sl * lot <= 0 THEN 0
    ELSE IntTrunc(cap * rp.n * sl, rp.d * 100 * lot)

\* position size rounded up to the next whole lot
calculate_position_size_ceil(cap, rp, sl, lot) ==
    IF sl * lot <= 0 THEN 0
    ELSE -((-(cap * rp.n)) \div (rp.d * 100 * sl * lot))

calculate_position_size(cap, rp, sl, lot) ==
    LET risk_per_lot == sl * lot
        \* max_loss_per_trade = cap * (rp / 100) = (cap * rp.n) / (rp.d * 100)
    IN  IF risk_per_lot <= 0 THEN 0
        ELSE IntTrunc(cap * rp.n, rp.d * 100 * risk_per_lot)

\* Series.isna().all(); true of the empty series
AllNa(series) == \A k \in 1..Len(series) : isna(series[k].v)

\* The value of Series.reindex(index, method='ffill') at label t: the value
\* held at the last label <= t (NaN included), NaN when there is none.
Ffill(series, t) ==
    LET S == {k \in 1..Len(series) : series[k].ts <= t}
    IN  IF S = {} THEN NaN
        ELSE series[CHOOSE k \in S : \A m \in S : m <= k].v

Reindex(series, rows) == [k \in 1..Len(rows) |-> Ffill(series, rows[k].ts)]

\* consolidation that tests the lower band only
ConsolidatingAboveLower(prev_close, vwap, ema) ==
    Gt(R(prev_close), PyMin(vwap, ema))

\* consolidation that tests the upper band only
ConsolidatingBelowUpper(prev_close, vwap, ema) ==
    Lt(R(prev_close), PyMax(vwap, ema))

\* Consolidation: the previous close lies between VWAP and EMA
Consolidating(prev_close, vwap, ema) ==
    LET upper_band == PyMax(vwap, ema)
        lower_band == PyMin(vwap, ema)
    IN  Gt(R(prev_close), lower_band) /\ Lt(R(prev_close), upper_band)

\* Breakdown: the current close is below both VWAP and EMA
Breakdown(last_close, vwap, ema) ==
    Lt(R(last_close), vwap) /\ Lt(R(last_close), ema)

check_entry_signal(df, df_15min_ema) ==
    IF Len(df) < 2 \/ AllNa(df_15min_ema) THEN FALSE
    ELSE
      LET last_candle == df[Len(df)]
          prev_candle == df[Len(df) - 1]
          aligned     == Reindex(df_15min_ema, df)
      IN  IF isna(aligned[Len(df)]) \/ isna(last_candle.VWAP) THEN FALSE
          ELSE /\ Consolidating(prev_candle.close, prev_candle.VWAP,
                                aligned[Len(df) - 1])
               /\ Breakdown(last_candle.close, last_candle.VWAP,
                            aligned[Len(df)])

\* check_exit_signal that compares the most recent candle with the one
\* before it
check_exit_signal_latest(df) ==
    IF Len(df) < 3 THEN FALSE
    ELSE Gt(df[Len(df)].high, df[Len(df) - 1].high)

check_exit_signal(df) ==
    IF Len(df) < 3 THEN FALSE
    ELSE LET last_high == df[Len(df) - 1].high
             prev_high == df[Len(df) - 2].high
         IN  Gt(last_high, prev_high)

-----------------------------------------------------------------------------
(* trading_bot/utils/indicators.py                                         *)

\* df.ta.vwap: cumulative typical price (high + low + close) / 3 weighted by
\* volume over the session; 0 / 0 is NaN.  The model's series lie within one
\* session.
calculate_vwap(df) ==
    LET wp  == [k \in 1..Len(df) |->
                  (df[k].high + df[k].low + df[k].close) * df[k].volume]
        vol == [k \in 1..Len(df) |-> df[k].volume]
    IN  [k \in 1..Len(df) |->
           [ts |-> df[k].ts, open |-> df[k].open, high |-> df[k].high,
            low |-> df[k].low, close |-> df[k].close, volume |-> df[k].volume,
            VWAP |-> IF SumTo(vol, k) = 0 THEN NaN
                     ELSE [n |-> SumTo(wp, k), d |-> 3 * SumTo(vol, k)]]]

\* length of the EMA the engine asks for
EMA_LENGTH == 25

\* df.ta.ema(length): undefined during the warm-up, seeded with the simple
\* average of the first `length` closes, then smoothed with 2 / (length + 1)
RECURSIVE EmaAt(_, _, _)
EmaAt(df, k, length) ==
    IF k < length THEN NaN
    ELSE IF k = length
         THEN LET RECURSIVE Acc(_)
                  Acc(m) == IF m = 0 THEN R(0) ELSE FAdd(df[m].close, Acc(m - 1))
              IN  FScale(Acc(length), 1, length)
         ELSE FAdd(FScale(df[k].close, 2, length + 1),
                   FScale(EmaAt(df, k - 1, length), length - 1, length + 1))

calculate_ema(df, length) ==
    [k \in 1..Len(df) |->
       [ts |-> df[k].ts, open |-> df[k].open, high |-> df[k].high,
        low |-> df[k].low, close |-> df[k].close, volume |-> df[k].volume,
        EMA_25 |-> EmaAt(df, k, length)]]

-----------------------------------------------------------------------------
(* trading_bot/backtesting/engine.py                                       *)

\* 5-minute slots in one 15-minute bucket
BucketSpan == 3

\* label of the 15-minute bucket that holds slot t
BucketLabel(t) == (t \div BucketSpan) * BucketSpan

SetMax(S) == CHOOSE x \in S : \A y \in S : y <= x

SetMin(S) == CHOOSE x \in S : \A y \in S : x <= y

\* df['close'].resample('15min').ohlc() joined with
\* df['volume'].resample('15min').sum(): one row per bucket from the first
\* to the last, built from the close column only; a bucket without candles
\* has NaN prices and volume 0.
Resample15min(df) ==
    IF df = <<>> THEN <<>>
    ELSE
      LET first == BucketLabel(df[1].ts)
          last  == BucketLabel(df[Len(df)].ts)
          vol   == [k \in 1..Len(df) |-> df[k].volume]
      IN  [b \in 1..((last - first) \div BucketSpan + 1) |->
            LET label == first + (b - 1) * BucketSpan
                M     == {k \in 1..Len(df) : BucketLabel(df[k].ts) = label}
            IN  IF M = {}
                THEN [ts |-> label, open |-> NaN, high |-> NaN, low |-> NaN,
                      close |-> NaN, volume |-> R(0)]
                ELSE [ts |-> label,
                      open   |-> R(df[SetMin(M)].close),
                      high   |-> R(SetMax({df[k].close : k \in M})),
                      low    |-> R(SetMin({df[k].close : k \in M})),
                      close  |-> R(df[SetMax(M)].close),
                      volume |-> R(SumTo(vol, SetMax(M)) - SumTo(vol, SetMin(M) - 1))]]

\* self.df_15min.columns after calculate_ema
Columns15min == <<"open", "high", "low", "close", "volume", "EMA_25">>

\* self.df_15min.columns[-2]
ema_col_name == Columns15min[Len(Columns15min) - 1]

\* self.df_15min[ema_col_name].reindex(self.df_5min.index, method='ffill')
AlignedEma(d15, d5) ==
    LET col == [k \in 1..Len(d15) |-> [ts |-> d15[k].ts, v |-> d15[k][ema_col_name]]]
    IN  [k \in 1..Len(d5) |-> [ts |-> d5[k].ts, v |-> Ffill(col, d5[k].ts)]]

MsgNoData == "No 5-minute data available for the given period."

MsgZeroSize == "Position size is zero. Skipping trade."

MsgNoTrades == "No trades were executed."

MsgResults == "Total Trades / Total PnL / Win Rate / Average PnL per trade"

\* a printed line
Line(m) == [msg |-> m]

Symbol == "BANKNIFTY"

\* Backtester.run up to the loop, _prepare_data included.  _prepare_data
\* sets self.df_5min only when there is data, and __init__ never sets it:
\* run's read of self.df_5min raises AttributeError when it is absent.
Run ==
    /\ pc = "constructed"
    /\ IF feed = <<>>
       THEN /\ stdout' = Append(stdout, Line(MsgNoData))
            /\ UNCHANGED <<has_df_5min, df_5min, df_15min, aligned_ema>>
       ELSE LET d5  == calculate_vwap(feed)
                d15 == calculate_ema(Resample15min(d5), EMA_LENGTH)
            IN  /\ df_5min' = d5
                /\ df_15min' = d15
                /\ aligned_ema' = AlignedEma(d15, d5)
                /\ has_df_5min' = TRUE
                /\ UNCHANGED stdout
    /\ pc' = IF has_df_5min' THEN "loop" ELSE "AttributeError"
    /\ i' = 1
    /\ UNCHANGED <<capital, risk_percent, sl_points, lot_size, feed, trades,
                   in_trade, current_trade, args, ret>>

\* Backtester._close_trade: the dict after the close
ClosedTrade(trade, exit_price, exit_time, reason) ==
    LET t1 == Put(trade, "exit_time", exit_time)
        t2 == Put(t1, "exit_price", exit_price)
        t3 == Put(t2, "status", "closed")
        t4 == Put(t3, "reason", reason)
    IN  Put(t4, "pnl",
            (t4["entry_price"] - t4["exit_price"]) * t4["position_size"] * lot_size)

_close_trade(trade, exit_price, exit_time, reason) ==
    /\ in_trade' = FALSE
    /\ current_trade' = ClosedTrade(trade, exit_price, exit_time, reason)
    /\ trades' = Append(trades, current_trade')

\* self.df_15min[self.df_15min.index <= t]
Slice15min(t) ==
    SubSeq(df_15min, 1, Cardinality({k \in 1..Len(df_15min) : df_15min[k].ts <= t}))

\* _manage_trade without the return after the stop-loss close: the later
\* checks run on the closed trade
_manage_trade_no_return(current_5min_data, current_15min_data) ==
    LET latest_candle == current_5min_data[Len(current_5min_data)]
        stop  == latest_candle.high >= current_trade["sl_price"]
        t1    == IF stop
                 THEN ClosedTrade(current_trade, current_trade["sl_price"],
                                  latest_candle.ts, "Stop-Loss Hit")
                 ELSE current_trade
        armed == IF /\ ~t1["sl_at_breakeven"]
                    /\ latest_candle.low <= t1["breakeven_price"]
                 THEN Put(Put(t1, "sl_price", t1["entry_price"]),
                          "sl_at_breakeven", TRUE)
                 ELSE t1
        exit  == check_exit_signal(current_15min_data)
        t2    == IF exit
                 THEN ClosedTrade(armed, latest_candle.close, latest_candle.ts,
                                  "Reverse Swing Exit")
                 ELSE armed
    IN  /\ current_trade' = t2
        /\ in_trade' = (~stop /\ ~exit)
        /\ trades' = trades \o (IF stop THEN <<t2>> ELSE <<>>)
                            \o (IF exit THEN <<t2>> ELSE <<>>)

\* _manage_trade that tests the reverse-swing exit before it moves the stop
\* to breakeven
_manage_trade_exit_before_arming(current_5min_data, current_15min_data) ==
    LET latest_candle == current_5min_data[Len(current_5min_data)]
        armed == IF /\ ~current_trade["sl_at_breakeven"]
                    /\ latest_candle.low <= current_trade["breakeven_price"]
                 THEN Put(Put(current_trade, "sl_price", current_trade["entry_price"]),
                          "sl_at_breakeven", TRUE)
                 ELSE current_trade
    IN  IF latest_candle.high >= current_trade["sl_price"]
        THEN _close_trade(current_trade, current_trade["sl_price"],
                          latest_candle.ts, "Stop-Loss Hit")
        ELSE IF check_exit_signal(current_15min_data)
             THEN _close_trade(current_trade, latest_candle.close,
                               latest_candle.ts, "Reverse Swing Exit")
             ELSE /\ current_trade' = armed
                  /\ UNCHANGED <<in_trade, trades>>

\* Backtester._manage_trade: stop-loss first, then the move of the stop to
\* breakeven, then the reverse-swing exit
_manage_trade(current_5min_data, current_15min_data) ==
    LET latest_candle == current_5min_data[Len(current_5min_data)]
        armed == IF /\ ~current_trade["sl_at_breakeven"]
                    /\ latest_candle.low <= current_trade["breakeven_price"]
                 THEN Put(Put(current_trade, "sl_price", current_trade["entry_price"]),
                          "sl_at_breakeven", TRUE)
                 ELSE current_trade
    IN  IF latest_candle.high >= current_trade["sl_price"]
        THEN _close_trade(current_trade, current_trade["sl_price"],
                          latest_candle.ts, "Stop-Loss Hit")
        ELSE IF check_exit_signal(current_15min_data)
             THEN _close_trade(armed, latest_candle.close, latest_candle.ts,
                               "Reverse Swing Exit")
             ELSE /\ current_trade' = armed
                  /\ UNCHANGED <<in_trade, trades>>

\* a pass of the loop that, when it has closed the trade, goes on to check
\* the same candle for a new entry
ManageTradeThenCheckForEntry ==
    /\ pc = "loop"
    /\ i < Len(df_5min)
    /\ in_trade
    /\ LET current_5min_slice == SubSeq(df_5min, 1, i + 1)
           latest_candle == current_5min_slice[i + 1]
           stop   == latest_candle.high >= current_trade["sl_price"]
           armed  == IF /\ ~current_trade["sl_at_breakeven"]
                        /\ latest_candle.low <= current_trade["breakeven_price"]
                     THEN Put(Put(current_trade, "sl_price",
                                  current_trade["entry_price"]),
                              "sl_at_breakeven", TRUE)
                     ELSE current_trade
           exit   == ~stop /\ check_exit_signal(Slice15min(latest_candle.ts))
           closed == IF stop
                     THEN ClosedTrade(current_trade, current_trade["sl_price"],
                                      latest_candle.ts, "Stop-Loss Hit")
                     ELSE ClosedTrade(armed, latest_candle.close,
                                      latest_candle.ts, "Reverse Swing Exit")
           size   == calculate_position_size(capital, risk_percent,
                                             sl_points, lot_size)
           signal == check_entry_signal(current_5min_slice,
                                        SubSeq(aligned_ema, 1, i + 1))
       IN  IF stop \/ exit
           THEN /\ trades' = Append(trades, closed)
                /\ in_trade' = (signal /\ size # 0)
                /\ current_trade' =
                     IF signal /\ size # 0
                     THEN [symbol          |-> Symbol,
                           entry_time      |-> latest_candle.ts,
                           entry_price     |-> latest_candle.close,
                           position_size   |-> size,
                           sl_price        |-> latest_candle.close + sl_points,
                           breakeven_price |-> latest_candle.close - sl_points,
                           status          |-> "open",
                           sl_at_breakeven |-> FALSE]
                     ELSE closed
           ELSE /\ current_trade' = armed
                /\ UNCHANGED <<in_trade, trades>>
    /\ i' = i + 1
    /\ UNCHANGED <<capital, risk_percent, sl_points, lot_size, feed, has_df_5min,
                   df_5min, df_15min, aligned_ema, pc, stdout, args, ret>>

\* One pass of the loop of run with self.in_trade true
ManageTrade ==
    /\ pc = "loop"
    /\ i < Len(df_5min)
    /\ in_trade
    /\ LET current_5min_slice == SubSeq(df_5min, 1, i + 1)
       IN  _manage_trade(current_5min_slice,
                         Slice15min(current_5min_slice[i + 1].ts))
    /\ i' = i + 1
    /\ UNCHANGED <<capital, risk_percent, sl_points, lot_size, feed, has_df_5min,
                   df_5min, df_15min, aligned_ema, pc, stdout, args, ret>>

\* _execute_trade with the stop on the wrong side of the entry
NewTradeStopBelow(entry_candle, position_size) ==
    [symbol          |-> Symbol,
     entry_time      |-> entry_candle.ts,
     entry_price     |-> entry_candle.close,
     position_size   |-> position_size,
     sl_price        |-> entry_candle.close - sl_points,
     breakeven_price |-> entry_candle.close - sl_points,
     status          |-> "open",
     sl_at_breakeven |-> FALSE]

\* Backtester._execute_trade: the dict of the new trade
NewTrade(entry_candle, position_size) ==
    [symbol          |-> Symbol,
     entry_time      |-> entry_candle.ts,
     entry_price     |-> entry_candle.close,
     position_size   |-> position_size,
     sl_price        |-> entry_candle.close + sl_points,
     breakeven_price |-> entry_candle.close - sl_points,
     status          |-> "open",
     sl_at_breakeven |-> FALSE]

\* _execute_trade that leaves in_trade set when it skips the trade
_execute_trade_stays_open(entry_candle) ==
    LET position_size == calculate_position_size(capital, risk_percent,
                                                 sl_points, lot_size)
    IN  /\ in_trade' = TRUE
        /\ IF position_size = 0
           THEN /\ stdout' = Append(stdout, Line(MsgZeroSize))
                /\ UNCHANGED current_trade
           ELSE /\ current_trade' = NewTrade(entry_candle, position_size)
                /\ UNCHANGED stdout

\* Backtester._execute_trade: no trade when the position size is zero
_execute_trade(entry_candle) ==
    LET position_size == calculate_position_size(capital, risk_percent,
                                                 sl_points, lot_size)
    IN  IF position_size = 0
        THEN /\ stdout' = Append(stdout, Line(MsgZeroSize))
             /\ in_trade' = FALSE
             /\ UNCHANGED current_trade
        ELSE /\ in_trade' = TRUE
             /\ current_trade' = NewTrade(entry_candle, position_size)
             /\ UNCHANGED stdout

\* Backtester._check_for_entry
_check_for_entry(current_data_slice) ==
    LET ema_series == SubSeq(aligned_ema, 1, Len(current_data_slice))
    IN  IF check_entry_signal(current_data_slice, ema_series)
        THEN _execute_trade(current_data_slice[Len(current_data_slice)])
        ELSE UNCHANGED <<in_trade, current_trade, stdout>>

\* One pass of the loop of run with self.in_trade false
CheckForEntry ==
    /\ pc = "loop"
    /\ i < Len(df_5min)
    /\ ~in_trade
    /\ _check_for_entry(SubSeq(df_5min, 1, i + 1))
    /\ i' = i + 1
    /\ UNCHANGED <<capital, risk_percent, sl_points, lot_size, feed, has_df_5min,
                   df_5min, df_15min, aligned_ema, trades, pc, args, ret>>

\* results_df[['entry_time', 'exit_time', 'entry_price', 'exit_price',
\* 'pnl', 'reason']], the table printed under "Individual Trades"
IndividualTrades(log) ==
    [k \in 1..Len(log) |->
       [entry_time  |-> log[k]["entry_time"],  exit_time  |-> log[k]["exit_time"],
        entry_price |-> log[k]["entry_price"], exit_price |-> log[k]["exit_price"],
        pnl         |-> log[k]["pnl"],         reason     |-> log[k]["reason"]]]

\* _print_results that counts a trade without loss as a win
ResultsCountingFlat(log) ==
    LET pnl        == [k \in 1..Len(log) |-> log[k]["pnl"]]
        total_pnl  == SumTo(pnl, Len(log))
        num_trades == Len(log)
        wins       == Cardinality({k \in 1..Len(log) : log[k]["pnl"] >= 0})
    IN  [msg        |-> MsgResults,
         total_pnl  |-> total_pnl,
         num_trades |-> num_trades,
         win_rate   |-> [n |-> wins * 100, d |-> num_trades],
         mean_pnl   |-> [n |-> total_pnl, d |-> num_trades],
         individual_trades |-> IndividualTrades(log)]

\* Backtester._print_results: what it prints
Results(log) ==
    LET pnl        == [k \in 1..Len(log) |-> log[k]["pnl"]]
        total_pnl  == SumTo(pnl, Len(log))
        num_trades == Len(log)
        wins       == Cardinality({k \in 1..Len(log) : log[k]["pnl"] > 0})
    IN  [msg        |-> MsgResults,
         total_pnl  |-> total_pnl,
         num_trades |-> num_trades,
         win_rate   |-> [n |-> wins * 100, d |-> num_trades],
         mean_pnl   |-> [n |-> total_pnl, d |-> num_trades],
         individual_trades |-> IndividualTrades(log)]

\* the end of the loop with a forced liquidation: a trade still open is
\* closed at the last close and logged before the results are printed
PrintResultsLiquidating ==
    /\ pc = "loop"
    /\ i >= Len(df_5min)
    /\ IF in_trade
       THEN _close_trade(current_trade, df_5min[Len(df_5min)].close,
                         df_5min[Len(df_5min)].ts, "End of Data")
       ELSE UNCHANGED <<trades, in_trade, current_trade>>
    /\ stdout' = IF trades' = <<>> THEN Append(stdout, Line(MsgNoTrades))
                 ELSE Append(stdout, Results(trades'))
    /\ pc' = "done"
    /\ UNCHANGED <<capital, risk_percent, sl_points, lot_size, feed, has_df_5min,
                   df_5min, df_15min, aligned_ema, i, args, ret>>

\* The end of the loop of run: _print_results
PrintResults ==
    /\ pc = "loop"
    /\ i >= Len(df_5min)
    /\ stdout' = IF trades = <<>> THEN Append(stdout, Line(MsgNoTrades))
                 ELSE Append(stdout, Results(trades))
    /\ pc' = "done"
    /\ UNCHANGED <<capital, risk_percent, sl_points, lot_size, feed, has_df_5min,
                   df_5min, df_15min, aligned_ema, trades, in_trade,
                   current_trade, i, args, ret>>

-----------------------------------------------------------------------------------------------------------------------------------------------------
(* The inputs of a backtest.                                               *)

\* Closing prices, and the volume of a candle
Closes == {1, 2, 3}

Volumes == {2}

\* A series as the data provider builds it (get_historical_data): slots in
\* a row from `first` on, high = max(open, close), low = min(open, close)
\* less a lower wick.  A candle opens where the one before it closed, and
\* at most one candle of a series, the one numbered `wick`, has a lower wick.
MkFeed(first, volume, wick, f) ==
    [k \in 1..Len(f) |->
       LET c == f[k]
           o == IF k = 1 THEN c ELSE f[k - 1]
           w == IF k = wick THEN 1 ELSE 0
       IN  [ts |-> first + k - 1, open |-> o, high |-> Max(o, c),
            low |-> Min(o, c) - w, close |-> c, volume |-> volume]]

\* capital; stop-loss distance; lot size
Capitals == {-400, 100, 400}

SlPoints == {1}

LotSizes == {2}

\* The state after Backtester.__init__, for every series the provider may
\* return (the empty one included)
Init ==
    /\ capital \in Capitals
    /\ risk_percent = R(1)
    /\ sl_points \in SlPoints
    /\ lot_size \in LotSizes
    /\ \E len \in 0..MaxLen, first \in 0..(BucketSpan - 1), volume \in Volumes :
         \E wick \in 0..len, f \in [1..len -> Closes] :
            feed = MkFeed(first, volume, wick, f)
    /\ has_df_5min = FALSE
    /\ df_5min = <<>>
    /\ df_15min = <<>>
    /\ aligned_ema = <<>>
    /\ trades = <<>>
    /\ in_trade = FALSE
    /\ current_trade = <<>>
    /\ i = 0
    /\ pc = "constructed"
    /\ stdout = <<>>
    /\ args = <<>>
    /\ ret = "none"

Next == Run \/ ManageTrade \/ CheckForEntry \/ PrintResults

Spec == Init /\ [][Next]_vars

-----------------------------------------------------------------------------
(* The functions of strategy.py called on their own.                       *)

\* every attribute of the Backtester as __init__ leaves it, for the
\* specifications that call a function of strategy.py directly
NoBacktest ==
    /\ capital = 0
    /\ risk_percent = R(0)
    /\ sl_points = 0
    /\ lot_size = 0
    /\ feed = <<>>
    /\ has_df_5min = FALSE
    /\ df_5min = <<>>
    /\ df_15min = <<>>
    /\ aligned_ema = <<>>
    /\ trades = <<>>
    /\ in_trade = FALSE
    /\ current_trade = <<>>
    /\ i = 0
    /\ stdout = <<>>

\* the example of strategy.py: capital from settings.py, 0.8 % risk, 50
\* points, lot size 15
SizeExample ==
    [capital |-> 100000, risk_percent |-> [n |-> 8, d |-> 10],
     sl_points |-> 50, lot_size |-> 15]

SizeInit ==
    /\ NoBacktest
    /\ \/ \E c \in (-MaxCapital)..MaxCapital, sl \in (-MaxRisk)..MaxRisk,
             lot \in (-MaxRisk)..MaxRisk, rp \in {R(0), R(1), [n |-> 8, d |-> 10]} :
            args = [capital |-> 50 * c, risk_percent |-> rp,
                    sl_points |-> sl, lot_size |-> lot]
       \/ args = SizeExample
    /\ pc = "call"
    /\ ret = "none"

CallPositionSize ==
    /\ pc = "call"
    /\ ret' = calculate_position_size(args.capital, args.risk_percent,
                                      args.sl_points, args.lot_size)
    /\ pc' = "returned"
    /\ UNCHANGED <<capital, risk_percent, sl_points, lot_size, feed, has_df_5min,
                   df_5min, df_15min, aligned_ema, trades, in_trade,
                   current_trade, i, stdout, args>>

SpecSize == SizeInit /\ [][CallPositionSize]_vars

\* values of VWAP and of the EMA series: undefined, or a price
Vals == {NaN} \cup {R(x) : x \in Closes}

\* the example of strategy.py, prices in tenths: four 5-minute rows from
\* 09:20 (slot 4) with the VWAP column set by hand, and the EMA series at
\* 09:15 (slot 3) and 09:30 (slot 6)
EntryExample ==
    [df  |-> <<[ts |-> 4, close |-> 1020, VWAP |-> R(1018)],
               [ts |-> 5, close |-> 1015, VWAP |-> R(1017)],
               [ts |-> 6, close |-> 1012, VWAP |-> R(1016)],
               [ts |-> 7, close |-> 990,  VWAP |-> R(1015)]>>,
     ema |-> <<[ts |-> 3, v |-> R(1019)], [ts |-> 6, v |-> R(1018)]>>]

\* rows at slots 1, 2, ...; an EMA series of up to two values two slots
\* apart, which may start after the first row
EntryInit ==
    /\ NoBacktest
    /\ \/ \E len \in 0..MaxRows, start \in {0, 2}, m \in 0..2 :
            \E c \in [1..len -> Closes], w \in [1..len -> Vals], e \in [1..m -> Vals] :
               args = [df  |-> [k \in 1..len |-> [ts |-> k, close |-> c[k], VWAP |-> w[k]]],
                       ema |-> [k \in 1..m |-> [ts |-> start + 2 * (k - 1), v |-> e[k]]]]
       \/ args = EntryExample
    /\ pc = "call"
    /\ ret = "none"

CallEntrySignal ==
    /\ pc = "call"
    /\ ret' = check_entry_signal(args.df, args.ema)
    /\ pc' = "returned"
    /\ UNCHANGED <<capital, risk_percent, sl_points, lot_size, feed, has_df_5min,
                   df_5min, df_15min, aligned_ema, trades, in_trade,
                   current_trade, i, stdout, args>>

SpecEntry == EntryInit /\ [][CallEntrySignal]_vars

-----------------------------------------------------------------------------
(* Properties of the backtest engine (specification Spec).                 *)

\* every dict of a trade the engine holds: the log and the trade in flight
AllTrades == {trades[k] : k \in 1..Len(trades)} \cup
             (IF current_trade = <<>> THEN {} ELSE {current_trade})

\* the engine is about to process candle i of the loop
AtCandle == pc = "loop" /\ i < Len(df_5min)

\* the step opens a new trade
OpensTrade ==
    /\ current_trade' # <<>>
    /\ current_trade'["status"] = "open"
    /\ \/ current_trade = <<>>
       \/ current_trade["entry_time"] # current_trade'["entry_time"]

\* the step takes the engine from Open to Flat
ClosesTrade == in_trade /\ ~in_trade'

C1_State ==
    /\ \A k \in 1..Len(trades) : trades[k]["status"] = "closed"
    /\ in_trade => current_trade["status"] = "open"

C1_Step ==
    /\ OpensTrade => ~in_trade /\ in_trade'
    /\ ClosesTrade => /\ trades' = Append(trades, current_trade')
                  /\ current_trade'["status"] = "closed"
                  /\ current_trade'["entry_time"] = current_trade["entry_time"]
                  /\ current_trade'["exit_time"] > current_trade'["entry_time"]
    /\ ~ClosesTrade => trades' = trades

\* C1: at most one trade is open at any step (the log holds closed trades
\* only, and a trade is created only while the engine is Flat), and every
\* Open -> Flat transition appends exactly one record to the log, closed,
\* with exit_time > entry_time; no other step changes the log.
C1_OneTradeOneRecord == [](C1_State) /\ [][C1_Step]_vars

\* two trades were opened and closed in one run
C1_Witness == Len(trades) >= 2 /\ pc = "done"

\* C2: on a candle processed while Open with high >= sl_price (as held at
\* the start of the step), the trade is closed at exactly that sl_price with
\* reason "Stop-Loss Hit", and the stop is neither moved to breakeven nor is
\* the reverse-swing exit applied on that candle.
C2_StopLossFirst ==
    [][(AtCandle /\ in_trade /\ df_5min[i + 1].high >= current_trade["sl_price"])
       => /\ ~in_trade'
          /\ trades' = Append(trades, current_trade')
          /\ current_trade'["reason"] = "Stop-Loss Hit"
          /\ current_trade'["exit_price"] = current_trade["sl_price"]
          /\ current_trade'["exit_time"] = df_5min[i + 1].ts
          /\ current_trade'["sl_price"] = current_trade["sl_price"]
          /\ current_trade'["sl_at_breakeven"] = current_trade["sl_at_breakeven"]]_vars

\* a trade stopped out, not armed, on a candle whose low had reached the
\* breakeven price and on which the reverse-swing signal was on
C2_Witness ==
    \E k \in 1..Len(trades) :
       /\ trades[k]["reason"] = "Stop-Loss Hit"
       /\ ~trades[k]["sl_at_breakeven"]
       /\ check_exit_signal(Slice15min(trades[k]["exit_time"]))
       /\ \E j \in 1..Len(df_5min) :
             /\ df_5min[j].ts = trades[k]["exit_time"]
             /\ df_5min[j].low <= trades[k]["breakeven_price"]

C3_State ==
    \A t \in AllTrades :
       /\ ~t["sl_at_breakeven"] => t["sl_price"] = t["entry_price"] + sl_points
       /\ t["sl_at_breakeven"] => t["sl_price"] = t["entry_price"]
       /\ (t["status"] = "closed" /\ t["reason"] = "Stop-Loss Hit"
              /\ t["sl_at_breakeven"])
            => t["exit_price"] = t["entry_price"] /\ t["pnl"] = 0

C3_Step ==
    /\ (in_trade /\ current_trade["sl_at_breakeven"])
         => /\ current_trade'["sl_at_breakeven"]
            /\ current_trade'["entry_time"] = current_trade["entry_time"]
    /\ (AtCandle /\ in_trade /\ df_5min[i + 1].high < current_trade["sl_price"]
           /\ df_5min[i + 1].low <= current_trade["breakeven_price"])
         => current_trade'["sl_at_breakeven"]

\* C3: before breakeven is armed sl_price = entry_price + sl_points; the
\* first candle with low <= breakeven_price on which the stop is not hit
\* arms it, and from then on sl_at_breakeven stays true and
\* sl_price = entry_price for the rest of the trade's life, so a stop-loss
\* close after arming exits at entry_price with pnl = 0.
C3_BreakevenStop == [](C3_State) /\ [][C3_Step]_vars

\* a trade armed on one candle and stopped out at its entry price later
C3_Witness ==
    \E k \in 1..Len(trades) :
       /\ trades[k]["reason"] = "Stop-Loss Hit"
       /\ trades[k]["sl_at_breakeven"]
       /\ trades[k]["exit_price"] = trades[k]["entry_price"]
       /\ trades[k]["pnl"] = 0

\* C4: every trade of the log has
\* pnl = (entry_price - exit_price) * position_size * lot_size, and
\* exit_price < entry_price implies pnl > 0, whatever the configuration.
C4_PnlSign ==
    \A k \in 1..Len(trades) :
       /\ trades[k]["pnl"] = (trades[k]["entry_price"] - trades[k]["exit_price"])
                               * trades[k]["position_size"] * lot_size
       /\ trades[k]["exit_price"] < trades[k]["entry_price"] => trades[k]["pnl"] > 0

\* C5: when the provider returns an empty series, run ends without raising,
\* having reported that no data is available, with the log empty and the
\* engine Flat.
C5_EmptyAborts ==
    (feed = <<>> /\ pc # "constructed")
      => /\ pc # "AttributeError"
         /\ \E k \in 1..Len(stdout) : stdout[k].msg = MsgNoData
         /\ trades = <<>>
         /\ ~in_trade

\* C8: when the entry signal fires while Flat and the position size is 0,
\* the engine is Flat after the candle, no trade is opened, the log is
\* unchanged, and the loop goes on to the next candle, which is checked for
\* entry as the engine is Flat.
C8_ZeroSizeSkipped ==
    [][(/\ AtCandle
        /\ ~in_trade
        /\ check_entry_signal(SubSeq(df_5min, 1, i + 1), SubSeq(aligned_ema, 1, i + 1))
        /\ calculate_position_size(capital, risk_percent, sl_points, lot_size) = 0)
       => /\ ~in_trade'
          /\ current_trade' = current_trade
          /\ trades' = trades
          /\ pc' = "loop"
          /\ i' = i + 1]_vars

\* two signals were skipped in one run: the second was still checked
C8_Witness ==
    /\ Cardinality({k \in 1..Len(stdout) : stdout[k].msg = MsgZeroSize}) >= 2
    /\ trades = <<>>
    /\ ~in_trade
    /\ current_trade = <<>>

-----------------------------------------------------------------------------
(* Properties of calculate_position_size (specification SpecSize).         *)

\* C6: calculate_position_size returns 0 whenever sl_points <= 0 or
\* lot_size <= 0, also when both are negative.
C6_ZeroOnDegenerate ==
    (pc = "returned" /\ (args.sl_points <= 0 \/ args.lot_size <= 0)) => ret = 0

\* C7: calculate_position_size returns a non-negative integer, equal to
\* floor(max_loss_per_trade / risk_per_lot) whenever risk_per_lot > 0, and 1
\* for the example (100000, 0.8 %, 50, 15).
C7_FloorNonNegative ==
    pc = "returned"
      => /\ ret >= 0
         /\ args.sl_points * args.lot_size > 0
              => ret = (args.capital * args.risk_percent.n)
                         \div (args.risk_percent.d * 100
                                 * args.sl_points * args.lot_size)
         /\ args = SizeExample => ret = 1

-----------------------------------------------------------------------------
(* Properties of check_entry_signal (specification SpecEntry).             *)

\* a < b on defined values
Below(a, b) == a.n * b.d < b.n * a.d

\* the entry rule as the specification states it
EntryRule(df, ema) ==
    /\ Len(df) >= 2
    /\ LET prev      == df[Len(df) - 1]
           curr      == df[Len(df)]
           vwap_prev == prev.VWAP
           vwap_curr == curr.VWAP
           ema_prev  == Ffill(ema, prev.ts)
           ema_curr  == Ffill(ema, curr.ts)
       IN  /\ vwap_prev.d # 0 /\ vwap_curr.d # 0
           /\ ema_prev.d # 0 /\ ema_curr.d # 0
           /\ \/ Below(vwap_prev, R(prev.close)) /\ Below(R(prev.close), ema_prev)
              \/ Below(ema_prev, R(prev.close)) /\ Below(R(prev.close), vwap_prev)
           /\ Below(R(curr.close), vwap_curr)
           /\ Below(R(curr.close), ema_curr)

\* C9: check_entry_signal returns true if and only if there are at least 2
\* candles, VWAP and the aligned EMA are defined at the previous and at the
\* current candle, the previous close lies strictly between
\* min(VWAP, EMA) and max(VWAP, EMA) of the previous candle, and the current
\* close is below both VWAP and EMA of the current candle.
C9_EntryIffRule ==
    pc = "returned" => (ret <=> EntryRule(args.df, args.ema))

\* the signal fired with the EMA above VWAP at the previous candle
C9_Witness ==
    /\ pc = "returned"
    /\ ret
    /\ Below(args.df[Len(args.df) - 1].VWAP,
             Ffill(args.ema, args.df[Len(args.df) - 1].ts))

UndefinedAtEither(df, ema) ==
    \E k \in {Len(df) - 1, Len(df)} :
       isna(df[k].VWAP) \/ isna(Ffill(ema, df[k].ts))

\* C11: check_entry_signal returns false, and does return, whenever fewer
\* than 2 candles are supplied or VWAP or the aligned EMA is undefined at
\* the current or at the previous candle, whichever of the four values are
\* undefined.
C11_UndefinedGivesFalse ==
    pc = "returned"
      => /\ ret \in BOOLEAN
         /\ (Len(args.df) < 2 \/ UndefinedAtEither(args.df, args.ema))
              => ret = FALSE

\* only the EMA of the previous candle is undefined, the previous close is
\* above VWAP and the current close has broken below VWAP and EMA
C11_Witness ==
    /\ pc = "returned"
    /\ Len(args.df) = 2
    /\ isna(Ffill(args.ema, args.df[1].ts))
    /\ ~isna(args.df[1].VWAP)
    /\ Gt(R(args.df[1].close), args.df[1].VWAP)
    /\ Breakdown(args.df[2].close, args.df[2].VWAP, Ffill(args.ema, args.df[2].ts))
    /\ ret = FALSE

-----------------------------------------------------------------------------
(* check_exit_signal called on its own (specification SpecExit).           *)

\* most rows of the 15-minute window handed to check_exit_signal on its own
MaxWindow == 4

\* highs of the 15-minute candles: those of the example of strategy.py, or
\* undefined
Highs == {NaN} \cup {R(x) : x \in {97, 99, 100, 101}}

\* a 15-minute window with these highs, oldest first
Window(h) == [k \in 1..Len(h) |-> [ts |-> BucketSpan * k, high |-> h[k]]]

\* the example of strategy.py: highs 101, 99, 100 at 09:45, 10:00, 10:15
ExitExample == Window(<<R(101), R(99), R(100)>>)

ExitInit ==
    /\ NoBacktest
    /\ \E len \in 0..MaxWindow : \E h \in [1..len -> Highs] :
          args = [df |-> Window(h)]
    /\ pc = "call"
    /\ ret = "none"

CallExitSignal ==
    /\ pc = "call"
    /\ ret' = check_exit_signal(args.df)
    /\ pc' = "returned"
    /\ UNCHANGED <<capital, risk_percent, sl_points, lot_size, feed, has_df_5min,
                   df_5min, df_15min, aligned_ema, trades, in_trade,
                   current_trade, i, stdout, args>>

SpecExit == ExitInit /\ [][CallExitSignal]_vars

\* the window with the high of its most recent candle replaced by h
WithLastHigh(df, h) ==
    [k \in 1..Len(df) |-> IF k = Len(df) THEN [ts |-> df[k].ts, high |-> h]
                          ELSE df[k]]

\* C12: check_exit_signal returns false for a window of fewer than 3
\* candles, and otherwise true if and only if high[-2] > high[-3] strictly;
\* the high of the most recent candle does not affect the result; highs
\* (101, 99, 100) and (99, 97, 100) give false and (97, 99, 100) gives true.
C12_ExitIffHigherHigh ==
    pc = "returned"
      => LET df == args.df
             n  == Len(df)
         IN  /\ n < 3 => ret = FALSE
             /\ n >= 3 => (ret <=> /\ ~isna(df[n - 1].high)
                                   /\ ~isna(df[n - 2].high)
                                   /\ Below(df[n - 2].high, df[n - 1].high))
             /\ \A h \in Highs : check_exit_signal(WithLastHigh(df, h)) = ret
             /\ df = ExitExample => ret = FALSE
             /\ df = Window(<<R(99), R(97), R(100)>>) => ret = FALSE
             /\ df = Window(<<R(97), R(99), R(100)>>) => ret = TRUE

\* the exit fired on a window of four candles whose most recent high is
\* the lowest of the last three
C12_Witness ==
    /\ pc = "returned"
    /\ Len(args.df) = 4
    /\ ret = TRUE
    /\ Lt(args.df[4].high, args.df[2].high)

-----------------------------------------------------------------------------
(* Further properties of the backtest engine (specification Spec).         *)

\* the fields _close_trade adds to the dict of a trade
CloseFields == {"exit_time", "exit_price", "reason", "pnl"}

C13_State ==
    /\ \A k \in 1..Len(trades) :
          /\ trades[k]["status"] = "closed"
          /\ CloseFields \subseteq DOMAIN trades[k]
          /\ trades[k]["exit_time"] \in {df_5min[j].ts : j \in 1..Len(df_5min)}
          /\ trades[k]["reason"] \in {"Stop-Loss Hit", "Reverse Swing Exit"}
          /\ trades[k]["pnl"] \in Int
          /\ trades[k]["exit_price"] \in Int
    /\ in_trade => /\ current_trade["status"] = "open"
                   /\ CloseFields \cap DOMAIN current_trade = {}
                   /\ \A k \in 1..Len(trades) :
                         trades[k]["entry_time"] # current_trade["entry_time"]
    /\ pc = "done"
         => LET last == stdout[Len(stdout)]
                pnl  == [k \in 1..Len(trades) |-> trades[k]["pnl"]]
            IN  IF trades = <<>> THEN last = Line(MsgNoTrades)
                ELSE /\ last.num_trades = Len(trades)
                     /\ last.total_pnl = SumTo(pnl, Len(trades))
                     /\ last.win_rate.n =
                          100 * Cardinality({k \in 1..Len(trades) : pnl[k] > 0})
                     /\ last.win_rate.d = Len(trades)

\* the end of the series closes nothing
C13_Step ==
    (pc = "loop" /\ pc' = "done")
      => /\ trades' = trades
         /\ in_trade' = in_trade
         /\ current_trade' = current_trade

\* C13: at every step of a run and at its end, every record of the log is
\* closed with exit_time, exit_price, reason and pnl defined, and a trade
\* that is still open has no pnl; a trade still open when the series ends
\* is not appended to the log and adds nothing to the total PnL, the trade
\* count or the win rate that are reported.
C13_OpenTradeNotLogged == [](C13_State) /\ [][C13_Step]_vars

\* the run ended with a closed trade in the log and another trade open
C13_Witness ==
    /\ pc = "done"
    /\ in_trade
    /\ Len(trades) >= 1
    /\ stdout[Len(stdout)].msg = MsgResults

\* the rows of the 5-minute table that fall in the bucket labelled t
Members(t) == {k \in 1..Len(df_5min) : BucketLabel(df_5min[k].ts) = t}

\* the data has been prepared
Prepared == pc \in {"loop", "done"}

\* C15: each 15-minute candle the engine builds has open = the open of the
\* first 5-minute candle of its bucket, high = the maximum of the 5-minute
\* highs, low = the minimum of the 5-minute lows, close = the last close and
\* volume = the sum of the volumes; so the highs compared by the
\* reverse-swing exit are maxima of 5-minute highs.
C15_ResampleOhlcv ==
    Prepared
      => \A b \in 1..Len(df_15min) :
            LET M == Members(df_15min[b].ts)
                vol == [k \in 1..Len(df_5min) |-> df_5min[k].volume]
            IN  M # {}
                  => /\ df_15min[b].open = R(df_5min[SetMin(M)].open)
                     /\ df_15min[b].high = R(SetMax({df_5min[k].high : k \in M}))
                     /\ df_15min[b].low = R(SetMin({df_5min[k].low : k \in M}))
                     /\ df_15min[b].close = R(df_5min[SetMax(M)].close)
                     /\ df_15min[b].volume =
                          R(SumTo(vol, SetMax(M)) - SumTo(vol, SetMin(M) - 1))

\* the column of the 15-minute table named c, as a series
Column15min(c) ==
    [k \in 1..Len(df_15min) |-> [ts |-> df_15min[k].ts, v |-> df_15min[k][c]]]

\* C17: the series the engine hands to check_entry_signal as the aligned
\* EMA holds, at every 5-minute timestamp t, the value of the EMA column of
\* the 15-minute table at the most recent 15-minute timestamp <= t
\* (undefined before the first), and no other column of that table.
C17_AlignedIsEma ==
    Prepared
      => /\ Len(aligned_ema) = Len(df_5min)
         /\ \A k \in 1..Len(df_5min) :
               /\ aligned_ema[k].ts = df_5min[k].ts
               /\ aligned_ema[k].v = Ffill(Column15min("EMA_25"), df_5min[k].ts)

\* the 15-minute candles with timestamp <= t
UpTo15min(t) == SelectSeq(df_15min, LAMBDA r : r.ts <= t)

\* the candle being processed arms the breakeven stop of the open trade
Arms(c) ==
    /\ ~current_trade["sl_at_breakeven"]
    /\ c.low <= current_trade["breakeven_price"]

\* C20: on a candle processed while Open on which the stop-loss is not hit,
\* the reverse-swing exit is evaluated on the 15-minute candles with
\* timestamp <= the candle's timestamp and, if it fires, closes the trade at
\* the candle's close with reason "Reverse Swing Exit"; when the candle also
\* arms the breakeven stop, the closed record has sl_at_breakeven true,
\* sl_price = entry_price and exit_price = the candle's close.
C20_ReverseSwingExit ==
    [][(AtCandle /\ in_trade /\ df_5min[i + 1].high < current_trade["sl_price"])
       => LET c == df_5min[i + 1]
          IN  IF check_exit_signal(UpTo15min(c.ts))
              THEN /\ ~in_trade'
                   /\ trades' = Append(trades, current_trade')
                   /\ current_trade'["status"] = "closed"
                   /\ current_trade'["reason"] = "Reverse Swing Exit"
                   /\ current_trade'["exit_price"] = c.close
                   /\ current_trade'["exit_time"] = c.ts
                   /\ current_trade'["entry_time"] = current_trade["entry_time"]
                   /\ Arms(c) => /\ current_trade'["sl_at_breakeven"]
                                 /\ current_trade'["sl_price"]
                                      = current_trade["entry_price"]
                   /\ ~Arms(c) => /\ current_trade'["sl_at_breakeven"]
                                       = current_trade["sl_at_breakeven"]
                                  /\ current_trade'["sl_price"]
                                       = current_trade["sl_price"]
              ELSE /\ in_trade'
                   /\ trades' = trades
                   /\ current_trade'["status"] = "open"]_vars

\* a trade that was armed and closed by the reverse-swing exit on one and
\* the same candle, the first after its entry
C20_Witness ==
    \E k \in 1..Len(trades) : \E j \in 2..Len(df_5min) :
       /\ trades[k]["reason"] = "Reverse Swing Exit"
       /\ trades[k]["sl_at_breakeven"]
       /\ trades[k]["sl_price"] = trades[k]["entry_price"]
       /\ df_5min[j].ts = trades[k]["exit_time"]
       /\ df_5min[j - 1].ts = trades[k]["entry_time"]
       /\ trades[k]["exit_price"] = df_5min[j].close

-----------------------------------------------------------------------------
(* run called again on the same Backtester (specification SpecRerun).      *)

\* most calls of run on one Backtester
MaxRuns == 2

\* the lines that _print_results has printed, one per completed run
ResultLines == SelectSeq(stdout, LAMBDA l : l.msg \in {MsgNoTrades, MsgResults})

\* The caller calls run again on the Backtester whose run has returned, for
\* the same period: the provider returns the same series.  Nothing is reset
\* between the calls: __init__ alone sets trades, in_trade and current_trade.
Rerun ==
    /\ pc = "done"
    /\ Len(ResultLines) < MaxRuns
    /\ pc' = "constructed"
    /\ UNCHANGED <<capital, risk_percent, sl_points, lot_size, feed, has_df_5min,
                   df_5min, df_15min, aligned_ema, trades, in_trade,
                   current_trade, i, stdout, args, ret>>

NextRerun == Run \/ ManageTrade \/ CheckForEntry \/ PrintResults \/ Rerun

\* the state after Backtester.__init__ with a configuration that sizes a
\* trade at one lot or more
RerunInit ==
    /\ Init
    /\ calculate_position_size(capital, risk_percent, sl_points, lot_size) > 0

SpecRerun == RerunInit /\ [][NextRerun]_vars

\* the log that a result line shows
PrintedLog(l) == IF l.msg = MsgNoTrades THEN <<>> ELSE l.individual_trades

\* C14: the log after a second run on the same Backtester, over the same
\* series and configuration, equals the log after the first run, and the
\* second run starts from the Flat state.
C14_RerunSameLog ==
    /\ (pc = "constructed" /\ Len(ResultLines) >= 1) => ~in_trade
    /\ (pc = "done" /\ Len(ResultLines) >= 2)
         => IndividualTrades(trades) = PrintedLog(ResultLines[1])

-----------------------------------------------------------------------------
(* A series with a gap, as between two sessions (specification SpecGap).   *)

\* longest series with a gap
MaxGapLen == 4

\* longest gap, in 15-minute buckets
MaxGap == 2

\* The series fd with the slots after candle number cut moved `gap` slots
\* later: the provider keeps the slots of market hours and of weekdays only,
\* so a series that spans two sessions has no candle in between.
GapFeed(fd, cut, gap) ==
    [k \in 1..Len(fd) |->
       IF k > cut THEN [fd[k] EXCEPT !.ts = @ + gap] ELSE fd[k]]

\* the state after Backtester.__init__ for a series with one gap and a
\* configuration that sizes a trade at one lot or more
GapInit ==
    /\ capital \in Capitals
    /\ risk_percent = R(1)
    /\ sl_points \in SlPoints
    /\ lot_size \in LotSizes
    /\ calculate_position_size(capital, risk_percent, sl_points, lot_size) > 0
    /\ \E len \in 2..MaxGapLen, first \in 0..(BucketSpan - 1), volume \in Volumes :
         \E wick \in 0..len, f \in [1..len -> Closes],
            cut \in 1..(len - 1), g \in 1..MaxGap :
            feed = GapFeed(MkFeed(first, volume, wick, f), cut, BucketSpan * g)
    /\ has_df_5min = FALSE
    /\ df_5min = <<>>
    /\ df_15min = <<>>
    /\ aligned_ema = <<>>
    /\ trades = <<>>
    /\ in_trade = FALSE
    /\ current_trade = <<>>
    /\ i = 0
    /\ pc = "constructed"
    /\ stdout = <<>>
    /\ args = <<>>
    /\ ret = "none"

SpecGap == GapInit /\ [][Next]_vars

\* C16: the 15-minute table has a candle only for the buckets that hold at
\* least one 5-minute candle, also when the 5-minute series has a gap of one
\* or more whole buckets; so the candles at positions -2 and -3 of the
\* window handed to check_exit_signal are real buckets.
C16_NoSyntheticCandles ==
    /\ Prepared => \A b \in 1..Len(df_15min) : Members(df_15min[b].ts) # {}
    /\ (AtCandle /\ in_trade)
         => LET w == Slice15min(df_5min[i + 1].ts)
            IN  Len(w) >= 3
                  => /\ Members(w[Len(w) - 1].ts) # {}
                     /\ Members(w[Len(w) - 2].ts) # {}

-----------------------------------------------------------------------------
(* _print_results on a log of its own (specification SpecResults).         *)

\* most trades of a log handed to _print_results on its own
MaxLog == 3

\* A log of closed short trades, each entered at price 2 with a stop one
\* point away and lot size 2: trade k has size sz[k] and left at price x[k]
\* (3 the stop, 2 the stop at breakeven, 1 a reverse-swing exit).
MkLog(x, sz) ==
    [k \in 1..Len(x) |->
       [symbol          |-> Symbol,
        entry_time      |-> 2 * k - 1,
        entry_price     |-> 2,
        position_size   |-> sz[k],
        sl_price        |-> IF x[k] = 2 THEN 2 ELSE 3,
        breakeven_price |-> 1,
        status          |-> "closed",
        sl_at_breakeven |-> (x[k] = 2),
        exit_time       |-> 2 * k,
        exit_price      |-> x[k],
        reason          |-> IF x[k] = 1 THEN "Reverse Swing Exit" ELSE "Stop-Loss Hit",
        pnl             |-> (2 - x[k]) * sz[k] * 2]]

\* a Backtester whose loop has run out, holding some log
ResultsInit ==
    /\ capital = 400
    /\ risk_percent = R(1)
    /\ sl_points = 1
    /\ lot_size = 2
    /\ feed = <<>>
    /\ has_df_5min = TRUE
    /\ df_5min = <<>>
    /\ df_15min = <<>>
    /\ aligned_ema = <<>>
    /\ \E len \in 0..MaxLog : \E x \in [1..len -> Closes], sz \in [1..len -> {1, 2}] :
          trades = MkLog(x, sz)
    /\ in_trade = FALSE
    /\ current_trade = <<>>
    /\ i = 0
    /\ pc = "loop"
    /\ stdout = <<>>
    /\ args = <<>>
    /\ ret = "none"

SpecResults == ResultsInit /\ [][PrintResults]_vars

\* the fractions a and b are the same number
SameRatio(a, b) == a.d # 0 /\ b.d # 0 /\ a.n * b.d = b.n * a.d

\* C18: for every log the aggregator reports total PnL = the sum of the
\* trades' pnl, win rate = count(pnl > 0) / count(trades), shown in percent,
\* and mean PnL = total PnL / count(trades); for an empty log it reports
\* that no trades were executed and divides nothing.
C18_Aggregates ==
    pc = "done"
      => LET last == stdout[Len(stdout)]
             n    == Len(trades)
             pnl  == [k \in 1..n |-> trades[k]["pnl"]]
             wins == Cardinality({k \in 1..n : pnl[k] > 0})
         IN  IF n = 0 THEN last = Line(MsgNoTrades)
             ELSE /\ last.msg = MsgResults
                  /\ last.num_trades = n
                  /\ last.total_pnl = SumTo(pnl, n)
                  /\ SameRatio(last.win_rate, [n |-> 100 * wins, d |-> n])
                  /\ SameRatio(last.mean_pnl, [n |-> SumTo(pnl, n), d |-> n])

\* the results of a log with a winning trade, a losing trade and a trade
\* closed at breakeven
C18_Witness ==
    /\ pc = "done"
    /\ stdout[Len(stdout)].msg = MsgResults
    /\ \E a, b, c \in 1..Len(trades) :
          trades[a]["pnl"] > 0 /\ trades[b]["pnl"] < 0 /\ trades[c]["pnl"] = 0

-----------------------------------------------------------------------------
(* Monotonicity of calculate_position_size (specification SpecSize).       *)

\* the call is within the domain of the claim
SizeDomain ==
    /\ args.capital >= 0
    /\ args.risk_percent.n >= 0
    /\ args.sl_points > 0
    /\ args.lot_size > 0

\* C19: for capital >= 0, risk_percent >= 0, sl_points > 0 and lot_size > 0,
\* a larger capital never gives a smaller position size, and a larger
\* sl_points or a larger lot_size never gives a larger one.
C19_Monotonic ==
    (pc = "returned" /\ SizeDomain)
      => /\ \A c \in 0..MaxCapital :
               50 * c >= args.capital
                 => calculate_position_size(50 * c, args.risk_percent,
                                            args.sl_points, args.lot_size) >= ret
         /\ \A sl \in 1..MaxRisk :
               sl >= args.sl_points
                 => calculate_position_size(args.capital, args.risk_percent,
                                            sl, args.lot_size) <= ret
         /\ \A lot \in 1..MaxRisk :
               lot >= args.lot_size
                 => calculate_position_size(args.capital, args.risk_percent,
                                            args.sl_points, lot) <= ret

\* a call whose result grows with the capital and shrinks with a wider stop
\* and with a larger lot
C19_Witness ==
    /\ pc = "returned"
    /\ SizeDomain
    /\ args.capital < 50 * MaxCapital
    /\ args.sl_points < MaxRisk
    /\ args.lot_size < MaxRisk
    /\ calculate_position_size(50 * MaxCapital, args.risk_percent,
                               args.sl_points, args.lot_size) > ret
    /\ calculate_position_size(args.capital, args.risk_percent,
                               args.sl_points + 1, args.lot_size) < ret
    /\ calculate_position_size(args.capital, args.risk_percent,
                               args.sl_points, args.lot_size + 1) < ret

-----------------------------------------------------------------------------
(* No look-ahead (specification Spec).                                     *)

\* the tables _prepare_data builds from the first k candles of the series
\* alone
PreparedFrom(k) ==
    LET d5  == calculate_vwap(SubSeq(feed, 1, k))
        d15 == calculate_ema(Resample15min(d5), EMA_LENGTH)
    IN  [df_5min |-> d5, df_15min |-> d15, aligned_ema |-> AlignedEma(d15, d5)]

\* the entry decision at candle number k taken from the candles 1..k alone
EntryFromPast(k) ==
    /\ check_entry_signal(PreparedFrom(k).df_5min, PreparedFrom(k).aligned_ema)
    /\ calculate_position_size(capital, risk_percent, sl_points, lot_size) # 0

\* the reverse-swing decision at candle number k taken from the candles
\* 1..k alone
ExitFromPast(k) ==
    check_exit_signal(SelectSeq(PreparedFrom(k).df_15min,
                                LAMBDA r : r.ts <= feed[k].ts))

\* the exit decision does not look ahead
ExitNoLookAhead ==
    [][(AtCandle /\ in_trade /\ df_5min[i + 1].high < current_trade["sl_price"])
       => (~in_trade' <=> ExitFromPast(i + 1))]_vars

\* C21: the state of the engine (Flat or Open, the current trade, the log)
\* after it has processed 5-minute candle i depends on the candles 0..i
\* only: the step at candle i leaves the engine in the state that the
\* candles up to i alone determine, for the entry decision, which uses the
\* forward-filled 15-minute indicator, and for the exit decision.
C21_NoLookAhead ==
    [][AtCandle
       => /\ SubSeq(df_5min, 1, i + 1) = PreparedFrom(i + 1).df_5min
          /\ ~in_trade => (in_trade' <=> EntryFromPast(i + 1))
          /\ (in_trade /\ df_5min[i + 1].high < current_trade["sl_price"])
               => (~in_trade' <=> ExitFromPast(i + 1))]_vars

-----------------------------------------------------------------------------
(* The risk of a trade (specification SpecRisk).                           *)

\* capitals that size a trade at one lot exactly and at two lots with a
\* remainder, for a stop two points away
RiskCapitals == {400, 900}

RiskSlPoints == {2}

\* the state after Backtester.__init__ for these configurations
RiskInit ==
    /\ capital \in RiskCapitals
    /\ risk_percent = R(1)
    /\ sl_points \in RiskSlPoints
    /\ lot_size \in LotSizes
    /\ \E len \in 0..MaxLen, first \in 0..(BucketSpan - 1), volume \in Volumes :
         \E wick \in 0..len, f \in [1..len -> Closes] :
            feed = MkFeed(first, volume, wick, f)
    /\ has_df_5min = FALSE
    /\ df_5min = <<>>
    /\ df_15min = <<>>
    /\ aligned_ema = <<>>
    /\ trades = <<>>
    /\ in_trade = FALSE
    /\ current_trade = <<>>
    /\ i = 0
    /\ pc = "constructed"
    /\ stdout = <<>>
    /\ args = <<>>
    /\ ret = "none"

SpecRisk == RiskInit /\ [][Next]_vars

\* the configuration and the candles are within the domain of the claim
RiskDomain ==
    /\ capital > 0
    /\ risk_percent.n > 0
    /\ sl_points > 0
    /\ lot_size > 0
    /\ \A k \in 1..Len(feed) :
          feed[k].low <= feed[k].close /\ feed[k].close <= feed[k].high

\* what the trade t loses when stopped out before arming
RiskOf(t) == sl_points * t["position_size"] * lot_size

\* C22: with capital, risk_percent, sl_points and lot_size positive and
\* low <= close <= high on every candle, every trade of the log has
\* pnl >= -(capital * risk_percent / 100), whatever its close reason; a
\* stop-loss close before arming loses exactly
\* sl_points * position_size * lot_size, and a reverse-swing close never
\* loses more than that.
C22_RiskBound ==
    RiskDomain
      => \A k \in 1..Len(trades) :
            LET t == trades[k]
            IN  /\ t["pnl"] * 100 * risk_percent.d >= -(capital * risk_percent.n)
                /\ (t["reason"] = "Stop-Loss Hit" /\ ~t["sl_at_breakeven"])
                     => t["pnl"] = -RiskOf(t)
                /\ t["reason"] = "Reverse Swing Exit" => t["pnl"] >= -RiskOf(t)

\* a run that logged a reverse-swing close at a loss smaller than the risk
\* of the trade
C22_Witness ==
    /\ RiskDomain
    /\ \E k \in 1..Len(trades) :
          /\ trades[k]["reason"] = "Reverse Swing Exit"
          /\ trades[k]["pnl"] < 0
          /\ trades[k]["pnl"] > -RiskOf(trades[k])

\* a run that logged a stop-loss close whose loss is less than the most
\* the configuration allows
StoppedWithinBudget ==
    \E k \in 1..Len(trades) :
       /\ trades[k]["reason"] = "Stop-Loss Hit"
       /\ trades[k]["pnl"] < 0
       /\ trades[k]["pnl"] * 100 * risk_percent.d > -(capital * risk_percent.n)

-----------------------------------------------------------------------------
(* The order of the steps of a run (specification SpecRisk).               *)

\* the entry signal is on at the 5-minute candle with timestamp t
SignalAt(t) ==
    \E j \in 2..Len(df_5min) :
       /\ df_5min[j].ts = t
       /\ check_entry_signal(SubSeq(df_5min, 1, j), SubSeq(aligned_ema, 1, j))

C23_State ==
    /\ Prepared => /\ \A k \in 1..(Len(df_5min) - 1) : df_5min[k].ts < df_5min[k + 1].ts
                   /\ i >= 1
                   /\ i <= Max(1, Len(df_5min))
    /\ pc = "done" => i = Max(1, Len(df_5min))
    /\ \A k \in 1..Len(trades) : trades[k]["entry_time"] < trades[k]["exit_time"]
    /\ \A k \in 1..(Len(trades) - 1) :
          trades[k]["exit_time"] < trades[k + 1]["entry_time"]
    /\ (in_trade /\ trades # <<>>)
         => trades[Len(trades)]["exit_time"] < current_trade["entry_time"]
    /\ (AtCandle /\ in_trade) => current_trade["entry_time"] < df_5min[i + 1].ts

C23_Step ==
    /\ AtCandle
         => /\ i' = i + 1
            /\ pc' = "loop"
            /\ in_trade => ~OpensTrade /\ stdout' = stdout
            /\ ~in_trade => trades' = trades
    /\ ~AtCandle => (trades' = trades /\ in_trade' = in_trade)
    /\ ClosesTrade => /\ ~OpensTrade
                      /\ current_trade'["exit_time"] = df_5min[i + 1].ts
    /\ OpensTrade => current_trade' = NewTrade(df_5min[i + 1], current_trade'["position_size"])

\* C23: each 5-minute candle from index 1 on is processed exactly once, in
\* timestamp order, and on each candle exactly one of trade management (if
\* Open at the start of the step) and the entry check (if Flat) runs; so no
\* trade is opened on the candle on which another closed, the entry candle
\* is not used to manage its own trade, and the log is in chronological
\* order with entry_time of trade k+1 > exit_time of trade k.
C23_OneStepPerCandle == [](C23_State) /\ [][C23_Step]_vars

\* a trade was closed on a candle at which the entry signal was on, and the
\* engine is Flat after that candle
C23_Witness ==
    /\ trades # <<>>
    /\ SignalAt(trades[Len(trades)]["exit_time"])
    /\ ~in_trade
    /\ \E j \in 1..Len(df_5min) :
          df_5min[j].ts = trades[Len(trades)]["exit_time"] /\ i = j

\* a run with two trades in the log, the second entered after the first
\* was closed
TwoTradesInOrder ==
    /\ Len(trades) >= 2
    /\ trades[1]["exit_time"] < trades[2]["entry_time"]

\* a trade was entered on a candle whose low had reached its breakeven
\* price, and was not armed by that candle
EntryCandleNotManaged ==
    /\ in_trade
    /\ ~current_trade["sl_at_breakeven"]
    /\ \E j \in 1..Len(df_5min) :
          /\ df_5min[j].ts = current_trade["entry_time"]
          /\ df_5min[j].low <= current_trade["breakeven_price"]
          /\ i = j

====
